---- MODULE Spec2Model ----
(***************************************************************************)
(* Zap Scraper (src/main.py): the resumable progress ledger, its CSV       *)
(* persistence, the per-URL scrape_single worker and the scraping loop of  *)
(* the Streamlit script.                                                   *)
(*                                                                         *)
(* The ledger (progress_df) is a sequence of rows; pandas' 0-based row     *)
(* labels are the 1-based positions here.  A file is a record              *)
(* [exists, header, rows]: the bytes written so far, as CSV text cells.    *)
(***************************************************************************)
EXTENDS Integers, Sequences, FiniteSets, TLC

\* ------------------------------------------------------------------ bounds
MaxRows == 2
MaxWords == 2
MaxConcurrency == 2
MaxSaveEvery == 2
MaxRuns == 3

\* ------------------------------------------------------- program constants
MAX_THREADS == 6
MaxAutoSave == 50

\* The URLs an input CSV may hold (opaque strings, neither numeric nor an
\* NA token of read_csv).
URLS == {"a.com", "b.org"}

\* pandas' missing value, as read_csv yields for an empty cell.
NaN == "NaN"

VARIABLES
    input,              \* input_df[url_column].astype(str).tolist()
    uploaded,           \* whether a CSV was uploaded in this session
    files,              \* the file system: progress path and its .tmp
    progress_df,        \* the in-memory ledger
    pc,                 \* position of the script's main thread
    ret,                \* where save_progress returns to
    reused,             \* load branch taken at line 278: ledger came from the file
    skip_done, use_selenium, auto_save_every, concurrency,   \* widgets
    SELENIUM_AVAILABLE, \* whether the selenium import succeeded
    tasks,              \* futures: idx -> state of scrape_single for that row
    recorded,           \* indices whose future the as_completed loop has consumed
    completed, total,   \* counters of the scraping loop
    flushed,            \* history: the ledger handed to the last completed os.replace
    phase,              \* history: "none", "reset", "reset_crashed", "reset_done", "crashed"
    preReset,           \* history: the ledger in memory when reset was clicked
    runs,               \* script runs started so far in this session
    doneAtCrash,        \* history: rows whose scrape had ended in "done" when the run died
    flushedAtCrash,     \* history: the last flushed ledger when the run died
    paused,             \* whether the user has asked the run to pause
    drivers,            \* calls of fetch_with_selenium: call -> position and session
    arg, out            \* a call of an extractor function: its argument, its result

vars == <<input, uploaded, files, progress_df, pc, ret, reused, skip_done,
          use_selenium, auto_save_every, concurrency, SELENIUM_AVAILABLE,
          tasks, recorded, completed, total, flushed, phase, preReset, runs,
          doneAtCrash, flushedAtCrash, paused, drivers, arg, out>>

\* ------------------------------------------------------------------ helpers
Min(a, b) == IF a < b THEN a ELSE b

SeqsUpTo(S, n) == UNION {[1..k -> S] : k \in 0..n}

Inputs == SeqsUpTo(URLS, MaxRows)

\* ------------------------------------------------------------- file system
Absent == [exists |-> FALSE, header |-> FALSE, rows |-> <<>>]

EmptyFile == [exists |-> TRUE, header |-> FALSE, rows |-> <<>>]

\* Mutant: the CSV is written straight to the progress path.
M_TmpPath == "path"

\* path + ".tmp" (line 79)
TmpPath == "tmp"

ProgressPath == "path"

\* ---------------------------------------------------------------- CSV text
\* to_csv of a text cell: a missing value and the empty string are both
\* written as an empty field.
CsvText(v) == IF v = NaN THEN "" ELSE v

\* read_csv of a text cell: an empty field is read as missing.
ReadText(c) == IF c = "" THEN NaN ELSE c

CsvBool(b) == IF b THEN "True" ELSE "False"

ReadBool(c) == c = "True"

ToCsvRow(r) ==
    [URL |-> CsvText(r.URL), emails |-> CsvText(r.emails),
     is_blog |-> CsvBool(r.is_blog), niche |-> CsvText(r.niche),
     status |-> CsvText(r.status), error |-> CsvText(r.error),
     last_updated |-> CsvText(r.last_updated)]

ReadCsvRow(c) ==
    [URL |-> ReadText(c.URL), emails |-> ReadText(c.emails),
     is_blog |-> ReadBool(c.is_blog), niche |-> ReadText(c.niche),
     status |-> ReadText(c.status), error |-> ReadText(c.error),
     last_updated |-> ReadText(c.last_updated)]

\* df.to_csv(tmp, index=False): the complete file.
CsvFile(df) ==
    [exists |-> TRUE, header |-> TRUE,
     rows |-> [i \in 1..Len(df) |-> ToCsvRow(df[i])]]

\* pd.read_csv(path): a file without a header line raises (EmptyDataError).
ReadCsv(f) == [i \in 1..Len(f.rows) |-> ReadCsvRow(f.rows[i])]

\* load_progress: the empty DataFrame when the file is absent or unreadable.
load_progress(f) ==
    IF f.exists
    THEN IF f.header THEN ReadCsv(f) ELSE <<>>
    ELSE <<>>

\* ------------------------------------------------------------------ ledger
FreshRow(u) ==
    [URL |-> u, emails |-> "[]", is_blog |-> FALSE, niche |-> "",
     status |-> "pending", error |-> "", last_updated |-> ""]

\* The initial ledger of lines 280-288 and 317-325.
FreshLedger(inp) == [i \in 1..Len(inp) |-> FreshRow(inp[i])]

\* progress_df.empty
IsEmpty(df) == Len(df) = 0

\* Mutant: the test of line 278 inverted.
M_UseLoaded(df, inp) == IsEmpty(df)

\* The branch of line 278: the loaded ledger is used unless it is empty.
UseLoaded(df, inp) == ~IsEmpty(df)

\* os.replace(src, dst); replacing a file by itself changes nothing.
OsReplace(fs, src, dst) ==
    IF src = dst THEN fs ELSE [fs EXCEPT ![dst] = fs[src], ![src] = Absent]

\* ------------------------------------------------------------ scrape_single
\* The page behind a URL (lines 184-193): what extraction yields from it.
EmailsOf(u) == IF u = "a.com" THEN <<"x@a.com">> ELSE <<>>

IsBlogOf(u) == u = "b.org"

NicheOf(u) == IF u = "a.com" THEN "Tech" ELSE "Other"

\* json.dumps of an email list
JsonDumps(l) == IF l = <<>> THEN "[]" ELSE "[\"x@a.com\"]"

\* Mutant: the result starts out "pending" instead of "error".
M_InitialResult(u) ==
    [url |-> u, emails |-> <<>>, is_blog |-> FALSE, niche |-> "",
     status |-> "pending", error |-> ""]

\* lines 156-163
InitialResult(u) ==
    [url |-> u, emails |-> <<>>, is_blog |-> FALSE, niche |-> "",
     status |-> "error", error |-> ""]

\* line 169
PlainFetched(res) == [res EXCEPT !.status = "done"]

\* line 171
PlainFailed(res) == [res EXCEPT !.error = "requests failed: e"]

\* Mutant: the check of SELENIUM_AVAILABLE is left out.
M_FallbackAllowed(use_fallback, available) == use_fallback

\* line 172: the rendered fetch is tried unless this is false
FallbackAllowed(use_fallback, available) == use_fallback /\ available

\* line 178
RenderFetched(res) == [res EXCEPT !.status = "done (selenium)"]

\* line 180
RenderFailed(res) == [res EXCEPT !.error = "selenium failed: e2"]

\* lines 188-194
Extracted(res) ==
    [res EXCEPT !.emails = EmailsOf(res.url), !.is_blog = IsBlogOf(res.url),
                !.niche = NicheOf(res.url), !.status = "done"]

\* lines 196-197: str(unexpected)
Unexpected(res) == [res EXCEPT !.error = "unexpected"]

\* lines 184-199: parsing and extraction either complete or raise.
Parsed(res, ok) == IF ok THEN Extracted(res) ELSE Unexpected(res)

\* A submitted future: `was` is the row's status when it was submitted,
\* `attempts` the fetches called so far, `plain` and `rendered` how each
\* ended ("none", "ok", "failed"), `raised` whether the handler of line 196 ran.
QueuedTask(u, st) ==
    [pc |-> "queued", attempts |-> <<>>, plain |-> "none", rendered |-> "none",
     raised |-> FALSE, was |-> st, result |-> InitialResult(u)]

Running == {i \in DOMAIN tasks : tasks[i].pc \in {"fetching", "rendering"}}

\* Mutant: the pool starts a thread for every submitted call.
M_PoolHasIdleThread(running, max_workers) == TRUE

\* line 347: ThreadPoolExecutor(max_workers=concurrency) has at most
\* max_workers threads, each running one call at a time.
PoolHasIdleThread(running, max_workers) == running < max_workers

\* A pool thread takes the next queued call (max_workers=concurrency).
WorkerStart(i) ==
    /\ tasks[i].pc = "queued"
    /\ \A j \in DOMAIN tasks : j < i => tasks[j].pc # "queued"
    /\ PoolHasIdleThread(Cardinality(Running), concurrency)
    /\ tasks' = [tasks EXCEPT ![i].pc = "fetching", ![i].attempts = <<"plain">>]
    /\ UNCHANGED <<input, uploaded, files, progress_df, pc, ret, reused, skip_done,
                   use_selenium, auto_save_every, concurrency, SELENIUM_AVAILABLE,
                   recorded, completed, total, flushed, phase, preReset, runs,
                   doneAtCrash, flushedAtCrash,
                   paused, drivers, arg, out>>

\* fetch_with_requests returned the page; parse and extract.
PlainSucceeds(i, parseOk) ==
    /\ tasks[i].pc = "fetching"
    /\ tasks' = [tasks EXCEPT ![i].pc = "returned", ![i].plain = "ok",
                              ![i].raised = ~parseOk,
                              ![i].result = Parsed(PlainFetched(@), parseOk)]
    /\ UNCHANGED <<input, uploaded, files, progress_df, pc, ret, reused, skip_done,
                   use_selenium, auto_save_every, concurrency, SELENIUM_AVAILABLE,
                   recorded, completed, total, flushed, phase, preReset, runs,
                   doneAtCrash, flushedAtCrash,
                   paused, drivers, arg, out>>

\* fetch_with_requests raised (lines 170-177).
PlainFails(i) ==
    /\ tasks[i].pc = "fetching"
    /\ IF FallbackAllowed(use_selenium, SELENIUM_AVAILABLE)
       THEN tasks' = [tasks EXCEPT ![i].pc = "rendering",
                                   ![i].plain = "failed",
                                   ![i].attempts = Append(@, "selenium"),
                                   ![i].result = PlainFailed(@)]
       ELSE tasks' = [tasks EXCEPT ![i].pc = "returned",
                                   ![i].plain = "failed",
                                   ![i].result = PlainFailed(@)]
    /\ UNCHANGED <<input, uploaded, files, progress_df, pc, ret, reused, skip_done,
                   use_selenium, auto_save_every, concurrency, SELENIUM_AVAILABLE,
                   recorded, completed, total, flushed, phase, preReset, runs,
                   doneAtCrash, flushedAtCrash,
                   paused, drivers, arg, out>>

\* fetch_with_selenium returned the page; parse and extract.
RenderSucceeds(i, parseOk) ==
    /\ tasks[i].pc = "rendering"
    /\ tasks' = [tasks EXCEPT ![i].pc = "returned", ![i].rendered = "ok",
                              ![i].raised = ~parseOk,
                              ![i].result = Parsed(RenderFetched(@), parseOk)]
    /\ UNCHANGED <<input, uploaded, files, progress_df, pc, ret, reused, skip_done,
                   use_selenium, auto_save_every, concurrency, SELENIUM_AVAILABLE,
                   recorded, completed, total, flushed, phase, preReset, runs,
                   doneAtCrash, flushedAtCrash,
                   paused, drivers, arg, out>>

\* fetch_with_selenium raised (lines 179-181).
RenderFails(i) ==
    /\ tasks[i].pc = "rendering"
    /\ tasks' = [tasks EXCEPT ![i].pc = "returned", ![i].rendered = "failed",
                              ![i].result = RenderFailed(@)]
    /\ UNCHANGED <<input, uploaded, files, progress_df, pc, ret, reused, skip_done,
                   use_selenium, auto_save_every, concurrency, SELENIUM_AVAILABLE,
                   recorded, completed, total, flushed, phase, preReset, runs,
                   doneAtCrash, flushedAtCrash,
                   paused, drivers, arg, out>>

\* -------------------------------------------------------------- the script
\* Mutant: rows that are "done" are not skipped.
M_urls_to_process(df, skip) == [i \in 1..Len(df) |-> <<i, df[i].URL>>]

\* lines 332-336
urls_to_process(df, skip) ==
    SelectSeq([i \in 1..Len(df) |-> <<i, df[i].URL>>],
              LAMBDA p : ~(skip /\ df[p[1]].status = "done"))

Indices(utp) == {utp[k][1] : k \in 1..Len(utp)}

\* lines 359-365: the row after the result is written back
WriteBack(row, res) ==
    [row EXCEPT !.emails = JsonDumps(res.emails), !.is_blog = res.is_blog,
                !.niche = res.niche, !.status = res.status,
                !.error = res.error, !.last_updated = "ts"]

\* Mutant: the ledger is saved after the last completion only.
M_ShouldSave(done, every, all) == done = all

\* line 371
ShouldSave(done, every, all) == done % every = 0 \/ done = all

\* Rows whose processing has ended in "done": in the ledger, or returned by
\* scrape_single and not yet written back.
DoneSoFar ==
    {i \in 1..Len(progress_df) :
        \/ progress_df[i].status = "done"
        \/ i \in DOMAIN tasks /\ tasks[i].pc = "returned"
                               /\ tasks[i].result.status = "done"}

\* The script run ends or dies: what it held in memory is gone.
Forget ==
    /\ progress_df' = <<>>
    /\ tasks' = <<>>
    /\ recorded' = {}
    /\ completed' = 0
    /\ total' = 0
    /\ ret' = "none"
    /\ reused' = FALSE
    /\ skip_done' = TRUE
    /\ use_selenium' = FALSE
    /\ auto_save_every' = 1
    /\ concurrency' = 1

\* A CSV is uploaded (lines 250-253) under the same source name: the script runs.
Upload(inp) ==
    /\ doneAtCrash' = {}
    /\ flushedAtCrash' = <<>>
    /\ runs < MaxRuns
    /\ runs' = runs + 1
    /\ pc = "stopped"
    /\ input' = inp
    /\ uploaded' = TRUE
    /\ pc' = "load"
    /\ phase' = "none"
    /\ preReset' = <<>>
    /\ UNCHANGED <<files, progress_df, ret, reused, skip_done, use_selenium,
                   auto_save_every, concurrency, SELENIUM_AVAILABLE, tasks,
                   recorded, completed, total, flushed,
                   paused, drivers, arg, out>>

\* The script runs again on the same upload (an interaction, or a restart).
Rerun ==
    /\ runs < MaxRuns
    /\ runs' = runs + 1
    /\ pc = "stopped"
    /\ uploaded
    /\ pc' = "load"
    /\ UNCHANGED <<input, uploaded, files, progress_df, ret, reused, skip_done,
                   use_selenium, auto_save_every, concurrency, SELENIUM_AVAILABLE,
                   tasks, recorded, completed, total, flushed, phase, preReset,
                   doneAtCrash, flushedAtCrash,
                   paused, drivers, arg, out>>

\* lines 276-289: load or initialize progress
LoadOrInit ==
    /\ pc = "load"
    /\ LET df == load_progress(files[ProgressPath])
       IN IF UseLoaded(df, input)
          THEN /\ progress_df' = df
               /\ reused' = TRUE
               /\ pc' = "widgets"
               /\ ret' = ret
          ELSE /\ progress_df' = FreshLedger(input)
               /\ reused' = FALSE
               /\ pc' = "save_open"
               /\ ret' = "widgets"
    /\ UNCHANGED <<input, uploaded, files, skip_done, use_selenium,
                   auto_save_every, concurrency, SELENIUM_AVAILABLE, tasks,
                   recorded, completed, total, flushed, phase, preReset, runs,
                   doneAtCrash, flushedAtCrash,
                   paused, drivers, arg, out>>

\* save_progress, line 80: to_csv opens (and truncates) the temporary file
SaveOpen ==
    /\ pc = "save_open"
    /\ files' = [files EXCEPT ![TmpPath] = EmptyFile]
    /\ pc' = "save_write"
    /\ UNCHANGED <<input, uploaded, progress_df, ret, reused, skip_done,
                   use_selenium, auto_save_every, concurrency, SELENIUM_AVAILABLE,
                   tasks, recorded, completed, total, flushed, phase, preReset, runs,
                   doneAtCrash, flushedAtCrash,
                   paused, drivers, arg, out>>

Written(f, df) == f.header /\ Len(f.rows) = Len(df)

\* save_progress, line 80: to_csv writes the header, then the next row
SaveWrite ==
    /\ pc = "save_write"
    /\ ~Written(files[TmpPath], progress_df)
    /\ LET f == files[TmpPath]
       IN files' = [files EXCEPT ![TmpPath] =
                IF ~f.header
                THEN [f EXCEPT !.header = TRUE]
                ELSE [f EXCEPT !.rows =
                         Append(@, ToCsvRow(progress_df[Len(f.rows) + 1]))]]
    /\ UNCHANGED <<input, uploaded, progress_df, pc, ret, reused, skip_done,
                   use_selenium, auto_save_every, concurrency, SELENIUM_AVAILABLE,
                   tasks, recorded, completed, total, flushed, phase, preReset, runs,
                   doneAtCrash, flushedAtCrash,
                   paused, drivers, arg, out>>

\* save_progress, line 81: os.replace(tmp, path), and the return to the caller
SaveReplace ==
    /\ pc = "save_write"
    /\ Written(files[TmpPath], progress_df)
    /\ files' = OsReplace(files, TmpPath, ProgressPath)
    /\ flushed' = progress_df
    /\ pc' = ret
    /\ ret' = "none"
    /\ UNCHANGED <<input, uploaded, progress_df, reused, skip_done,
                   use_selenium, auto_save_every, concurrency, SELENIUM_AVAILABLE,
                   tasks, recorded, completed, total, phase, preReset, runs,
                   doneAtCrash, flushedAtCrash,
                   paused, drivers, arg, out>>

\* lines 293-348: the widgets are read, urls_to_process is built and every
\* entry is submitted to the pool
Run(skip, sel, every, conc) ==
    /\ doneAtCrash' = {}
    /\ flushedAtCrash' = <<>>
    /\ pc = "widgets"
    /\ skip_done' = skip
    /\ use_selenium' = sel
    /\ auto_save_every' = every
    /\ concurrency' = conc
    /\ LET utp == urls_to_process(progress_df, skip)
       IN /\ tasks' = [i \in Indices(utp) |->
                          QueuedTask(progress_df[i].URL, progress_df[i].status)]
          /\ total' = Len(utp)
          /\ pc' = IF utp = <<>> THEN "export" ELSE "loop"
    /\ completed' = 0
    /\ recorded' = {}
    /\ phase' = "none"
    /\ preReset' = <<>>
    /\ UNCHANGED <<input, uploaded, files, progress_df, ret, reused,
                   SELENIUM_AVAILABLE, flushed, runs,
                   paused, drivers, arg, out>>

\* Mutant: the result is written to every row that holds the URL.
M_RecordInto(df, i, res) ==
    [j \in 1..Len(df) |-> IF df[j].URL = df[i].URL THEN WriteBack(df[j], res)
                                                  ELSE df[j]]

\* lines 351, 358-365: progress_df.at[idx, ...], idx the row label the
\* future was submitted for
RecordInto(df, i, res) == [df EXCEPT ![i] = WriteBack(@, res)]

\* Mutant: the write-back is done by the pool thread when its call returns,
\* whatever the main thread is doing.
M_Record(i) ==
    /\ pc \in {"loop", "save_open", "save_write"}
    /\ i \in DOMAIN tasks \ recorded
    /\ tasks[i].pc = "returned"
    /\ progress_df' = RecordInto(progress_df, i, tasks[i].result)
    /\ recorded' = recorded \cup {i}
    /\ completed' = completed + 1
    /\ IF pc = "loop" /\ ShouldSave(completed + 1, auto_save_every, total)
       THEN pc' = "save_open" /\ ret' = "loop"
       ELSE pc' = pc /\ ret' = ret
    /\ UNCHANGED <<input, uploaded, files, reused, skip_done, use_selenium,
                   auto_save_every, concurrency, SELENIUM_AVAILABLE, tasks,
                   total, flushed, phase, preReset, runs,
                   doneAtCrash, flushedAtCrash,
                   paused, drivers, arg, out>>

\* lines 350-372: one iteration of the as_completed loop
Record(i) ==
    /\ pc = "loop"
    /\ i \in DOMAIN tasks \ recorded
    /\ tasks[i].pc = "returned"
    /\ progress_df' = RecordInto(progress_df, i, tasks[i].result)
    /\ recorded' = recorded \cup {i}
    /\ completed' = completed + 1
    /\ IF ShouldSave(completed + 1, auto_save_every, total)
       THEN pc' = "save_open" /\ ret' = "loop"
       ELSE pc' = pc /\ ret' = ret
    /\ UNCHANGED <<input, uploaded, files, reused, skip_done, use_selenium,
                   auto_save_every, concurrency, SELENIUM_AVAILABLE, tasks,
                   total, flushed, phase, preReset, runs,
                   doneAtCrash, flushedAtCrash,
                   paused, drivers, arg, out>>

\* lines 377-378: the loop is over, the final save
LoopExit ==
    /\ pc = "loop"
    /\ completed = total
    /\ pc' = "save_open"
    /\ ret' = "export"
    /\ UNCHANGED <<input, uploaded, files, progress_df, reused, skip_done,
                   use_selenium, auto_save_every, concurrency, SELENIUM_AVAILABLE,
                   tasks, recorded, completed, total, flushed, phase, preReset, runs,
                   doneAtCrash, flushedAtCrash,
                   paused, drivers, arg, out>>

\* lines 382-415: the export is offered and the script run ends
Finish ==
    /\ pc = "export"
    /\ pc' = "stopped"
    /\ Forget
    /\ phase' = "none"
    /\ preReset' = <<>>
    /\ UNCHANGED <<input, uploaded, files, SELENIUM_AVAILABLE, flushed, runs,
                   doneAtCrash, flushedAtCrash,
                   paused, drivers, arg, out>>

\* line 314: "Start fresh" was clicked
ResetClick ==
    /\ doneAtCrash' = {}
    /\ flushedAtCrash' = <<>>
    /\ pc = "widgets"
    /\ pc' = "reset"
    /\ phase' = "reset"
    /\ preReset' = progress_df
    /\ UNCHANGED <<input, uploaded, files, progress_df, ret, reused, skip_done,
                   use_selenium, auto_save_every, concurrency, SELENIUM_AVAILABLE,
                   tasks, recorded, completed, total, flushed, runs,
                   paused, drivers, arg, out>>

\* Mutant: the reset removes and saves, but does not rebuild the ledger.
M_ResetRemove ==
    /\ pc = "reset"
    /\ files' = [files EXCEPT ![ProgressPath] = Absent]
    /\ flushed' = <<>>
    /\ pc' = "save_open"
    /\ ret' = "rerun"
    /\ UNCHANGED <<input, uploaded, progress_df, reused, skip_done, use_selenium,
                   auto_save_every, concurrency, SELENIUM_AVAILABLE, tasks,
                   recorded, completed, total, phase, preReset, runs,
                   doneAtCrash, flushedAtCrash,
                   paused, drivers, arg, out>>

\* lines 315-326: the durable copy is removed, the ledger rebuilt and saved
ResetRemove ==
    /\ pc = "reset"
    /\ files' = [files EXCEPT ![ProgressPath] = Absent]
    /\ flushed' = <<>>
    /\ progress_df' = FreshLedger(input)
    /\ pc' = "save_open"
    /\ ret' = "rerun"
    /\ UNCHANGED <<input, uploaded, reused, skip_done, use_selenium,
                   auto_save_every, concurrency, SELENIUM_AVAILABLE, tasks,
                   recorded, completed, total, phase, preReset, runs,
                   doneAtCrash, flushedAtCrash,
                   paused, drivers, arg, out>>

\* line 327: st.experimental_rerun()
ExperimentalRerun ==
    /\ runs < MaxRuns
    /\ runs' = runs + 1
    /\ pc = "rerun"
    /\ pc' = "load"
    /\ Forget
    /\ phase' = "reset_done"
    /\ UNCHANGED <<input, uploaded, files, SELENIUM_AVAILABLE, flushed, preReset,
                   doneAtCrash, flushedAtCrash,
                   paused, drivers, arg, out>>

\* The script run dies at any point (the process is killed, the run is
\* interrupted): memory is lost, the files stay as they are.
Crash ==
    /\ doneAtCrash' = DoneSoFar
    /\ flushedAtCrash' = flushed
    /\ pc # "stopped"
    /\ pc' = "stopped"
    /\ Forget
    /\ phase' = IF phase = "reset" THEN "reset_crashed" ELSE "crashed"
    /\ preReset' = IF phase = "reset" THEN preReset ELSE <<>>
    /\ UNCHANGED <<input, uploaded, files, SELENIUM_AVAILABLE, flushed, runs,
                   paused, drivers, arg, out>>

\* to_csv raises (an I/O error): the exception ends the script run.
SaveFails ==
    /\ doneAtCrash' = DoneSoFar
    /\ flushedAtCrash' = flushed
    /\ pc = "save_write"
    /\ pc' = "stopped"
    /\ Forget
    /\ phase' = IF phase = "reset" THEN "reset_crashed" ELSE "crashed"
    /\ preReset' = IF phase = "reset" THEN preReset ELSE <<>>
    /\ UNCHANGED <<input, uploaded, files, SELENIUM_AVAILABLE, flushed, runs,
                   paused, drivers, arg, out>>

\* The session before anything is uploaded.
ScriptInit ==
    /\ input = <<>>
    /\ uploaded = FALSE
    /\ files = [p \in {ProgressPath, TmpPath} |-> Absent]
    /\ progress_df = <<>>
    /\ pc = "stopped"
    /\ ret = "none"
    /\ reused = FALSE
    /\ skip_done = TRUE
    /\ use_selenium = FALSE
    /\ auto_save_every = 1
    /\ concurrency = 1
    /\ SELENIUM_AVAILABLE \in BOOLEAN
    /\ tasks = <<>>
    /\ recorded = {}
    /\ completed = 0
    /\ total = 0
    /\ flushed = <<>>
    /\ phase = "none"
    /\ preReset = <<>>
    /\ runs = 0
    /\ doneAtCrash = {}
    /\ flushedAtCrash = <<>>

Init ==
    /\ ScriptInit
    /\ paused = FALSE
    /\ drivers = <<>>
    /\ arg = <<>>
    /\ out = <<>>

\* One script run after the upload, with every setting of the widgets and
\* every outcome of the fetches.
Next ==
    \/ \E inp \in Inputs : runs = 0 /\ Upload(inp)
    \/ LoadOrInit
    \/ SaveOpen
    \/ SaveWrite
    \/ SaveReplace
    \/ SaveFails
    \/ \E skip \in BOOLEAN, sel \in BOOLEAN,
          every \in 1..Min(MaxSaveEvery, MaxAutoSave),
          conc \in 1..Min(MaxConcurrency, Min(12, MAX_THREADS)) :
            Run(skip, sel, every, conc)
    \/ \E i \in DOMAIN tasks : WorkerStart(i)
    \/ \E i \in DOMAIN tasks, parseOk \in BOOLEAN : PlainSucceeds(i, parseOk)
    \/ \E i \in DOMAIN tasks : PlainFails(i)
    \/ \E i \in DOMAIN tasks, parseOk \in BOOLEAN : RenderSucceeds(i, parseOk)
    \/ \E i \in DOMAIN tasks : RenderFails(i)
    \/ \E i \in DOMAIN tasks : Record(i)
    \/ LoopExit
    \/ Finish
    \/ Crash

Spec == Init /\ [][Next]_vars

\* A session of several script runs (uploads, reruns, resets, crashes and
\* restarts) on inputs of one URL, with the widgets' defaults skip_done = True
\* (line 297) and no Selenium fallback (line 299), one pool thread, and pages
\* that parse.
SessionInputs == {inp \in Inputs : \A k \in 1..Len(inp) : inp[k] = "a.com"}

InitSession == Init /\ SELENIUM_AVAILABLE = FALSE

NextSession ==
    \/ \E inp \in SessionInputs : Upload(inp)
    \/ Rerun
    \/ LoadOrInit
    \/ SaveOpen
    \/ SaveWrite
    \/ SaveReplace
    \/ SaveFails
    \/ \E every \in 1..Min(MaxSaveEvery, MaxAutoSave) : Run(TRUE, FALSE, every, 1)
    \/ \E i \in DOMAIN tasks : WorkerStart(i)
    \/ \E i \in DOMAIN tasks : PlainSucceeds(i, TRUE)
    \/ \E i \in DOMAIN tasks : PlainFails(i)
    \/ \E i \in DOMAIN tasks : Record(i)
    \/ LoopExit
    \/ Finish
    \/ ResetClick
    \/ ResetRemove
    \/ ExperimentalRerun
    \/ Crash

SpecSession == InitSession /\ [][NextSession]_vars

\* ================================================================== claims
Durable == files[ProgressPath]

DoneRows(df) == {i \in 1..Len(df) : df[i].status = "done"}

Empty(v) == v \in {"", NaN}

\* One row per input URL, every status pending, every result field empty.
AllPending(df, inp) ==
    /\ Len(df) = Len(inp)
    /\ \A i \in 1..Len(df) :
          /\ df[i].URL = inp[i]
          /\ df[i].status = "pending"
          /\ df[i].emails = "[]"
          /\ df[i].is_blog = FALSE
          /\ Empty(df[i].niche) /\ Empty(df[i].error) /\ Empty(df[i].last_updated)

\* Every fetch attempted for the URL failed.
AllFetchesFailed(t) == t.plain = "failed" /\ t.rendered \in {"none", "failed"}

\* C1: in a run with skip_done = true, no row whose status was "done" when
\* the run started is submitted to the pool, in a first run or a resumed one.
C1_DoneNeverDispatched ==
    skip_done => \A i \in DOMAIN tasks : tasks[i].was # "done"

\* C1 witness: a resumed run has submitted rows while a row that was loaded
\* as "done" stayed out of the pool.
C1_Witness ==
    /\ pc = "loop" /\ skip_done /\ reused /\ DOMAIN tasks # {}
    /\ \E i \in 1..Len(progress_df) :
          i \notin DOMAIN tasks /\ progress_df[i].status = "done"

\* C2 (as claimed): when a run has finished, every row that was dispatched
\* has status exactly "done" or exactly "error", in memory and in the
\* durable copy.
C2_DispatchedEndDoneOrError ==
    pc = "export" =>
        \A i \in DOMAIN tasks :
            /\ progress_df[i].status \in {"done", "error"}
            /\ Durable.exists /\ i <= Len(Durable.rows)
            /\ Durable.rows[i].status \in {"done", "error"}

\* C3 (as claimed): an exception raised after the page was retrieved is
\* recorded as status "error" with a non-empty message, and every dispatched
\* row is recorded.
C3_UnexpectedFailureIsError ==
    pc = "export" =>
        /\ recorded = DOMAIN tasks
        /\ \A i \in DOMAIN tasks :
              tasks[i].raised =>
                  /\ progress_df[i].status = "error"
                  /\ ~Empty(progress_df[i].error)

C5_DurableCopyComplete ==
    Durable.exists => Durable = CsvFile(flushed)

\* C5 witness: the run died while the temporary file was half written, and
\* the durable copy is whole and holds a recorded result.
C5_Witness ==
    /\ pc = "stopped" /\ phase = "crashed"
    /\ files[TmpPath].exists
    /\ Durable.exists
    /\ Len(files[TmpPath].rows) < Len(Durable.rows)
    /\ DoneRows(flushed) # {}

\* C6 (as claimed): a ledger with recorded results that was saved and is
\* loaded again for an input of the same number of rows equals the saved one.
C6_RoundTripExact ==
    (/\ pc = "widgets" /\ reused
     /\ Len(flushed) = Len(input)
     /\ \E i \in 1..Len(flushed) : flushed[i].status # "pending")
        => progress_df = flushed

\* C7 (as claimed): the loaded ledger is reused only when its row count equals
\* the number of input URLs; otherwise a fresh all-pending ledger is built
\* and persisted before any dispatch.
C7_ReuseOnlyOnMatchingRowCount ==
    pc = "widgets" =>
        /\ reused => Len(progress_df) = Len(input)
        /\ ~reused => /\ progress_df = FreshLedger(input)
                      /\ Durable = CsvFile(FreshLedger(input))

\* C8: reset removes the durable copy and leaves the in-memory and the
\* durable ledger with one pending, empty row per input URL; after a crash
\* at any step of the reset and a restart the ledger is all pending or is
\* the complete ledger from before the reset.
C8_ResetAllPending ==
    /\ (pc \in {"save_open", "save_write"} /\ ret = "rerun") =>
          /\ ~Durable.exists
          /\ AllPending(progress_df, input)
    /\ pc = "rerun" =>
          /\ AllPending(progress_df, input)
          /\ Durable = CsvFile(FreshLedger(input))
    /\ (pc = "widgets" /\ phase = "reset_done") =>
          /\ AllPending(progress_df, input)
          /\ AllPending(load_progress(Durable), input)
    /\ (pc = "widgets" /\ phase = "reset_crashed") =>
          \/ AllPending(progress_df, input)
          \/ progress_df = preReset

\* C8 witness: the reset died before the durable copy was removed, and the
\* restart loaded the ledger from before the reset, results included.
C8_Witness ==
    /\ pc = "widgets" /\ phase = "reset_crashed"
    /\ progress_df = preReset
    /\ DoneRows(progress_df) # {}

\* C9: per URL the plain fetch is the first attempt, and the rendered fetch
\* is attempted only after the plain fetch failed, with the fallback flag on
\* and Selenium available; never after a plain success.
C9_FetchPolicy ==
    \A i \in DOMAIN tasks :
        LET t == tasks[i]
        IN /\ t.attempts \in {<<>>, <<"plain">>, <<"plain", "selenium">>}
           /\ (t.pc = "queued") = (t.attempts = <<>>)
           /\ t.rendered # "none" => t.attempts = <<"plain", "selenium">>
           /\ t.attempts = <<"plain", "selenium">> =>
                 /\ t.plain = "failed"
                 /\ use_selenium
                 /\ SELENIUM_AVAILABLE
           /\ t.plain = "ok" => t.attempts = <<"plain">>

\* C9 witness: a URL whose plain fetch failed was fetched again with Selenium.
C9_Witness ==
    \E i \in DOMAIN tasks :
        /\ tasks[i].pc = "returned"
        /\ tasks[i].attempts = <<"plain", "selenium">>
        /\ tasks[i].rendered = "ok"

\* C10: when a run has finished, a URL whose every fetch failed has no
\* extraction results and status "error" with a non-empty message, in memory
\* and in the durable copy, and every dispatched row has been recorded.
C10_FetchFailureIsError ==
    pc = "export" =>
        /\ recorded = DOMAIN tasks
        /\ \A j \in DOMAIN tasks : progress_df[j].last_updated = "ts"
        /\ \A i \in DOMAIN tasks :
              AllFetchesFailed(tasks[i]) =>
                  /\ progress_df[i].status = "error"
                  /\ ~Empty(progress_df[i].error)
                  /\ progress_df[i].emails = "[]"
                  /\ progress_df[i].niche = ""
                  /\ progress_df[i].is_blog = FALSE
                  /\ Durable = CsvFile(progress_df)

\* C10 witness: a run finished in which one URL failed every fetch and
\* another was scraped.
C10_Witness ==
    /\ pc = "export"
    /\ \E i, j \in DOMAIN tasks :
          /\ AllFetchesFailed(tasks[i])
          /\ tasks[i].rendered = "failed"
          /\ tasks[j].plain = "ok"
          /\ progress_df[j].status = "done"

\* ---------------------------------------------------------------- claim C11
\* How often scrape_single has been entered for the future of row i: every
\* call starts with the plain fetch.
Invocations(i) ==
    Cardinality({k \in 1..Len(tasks[i].attempts) : tasks[i].attempts[k] = "plain"})

Saving == pc \in {"save_open", "save_write"}

\* C12: while a save_progress is in progress no row of the in-memory ledger
\* is modified, and no second save_progress starts before the first has
\* returned (or the run has died): record-result writes and flushes are
\* serialized.
C12_WritesAndFlushesSerialized ==
    [][/\ (Saving /\ pc' # "stopped") => progress_df' = progress_df
       /\ pc = "save_write" => pc' # "save_open"]_vars

\* A result is waiting to be written back while the ledger is being saved
\* inside the loop.
C12_Witness ==
    /\ pc = "save_write"
    /\ ret = "loop"
    /\ files[TmpPath].header
    /\ \E i \in DOMAIN tasks \ recorded : tasks[i].pc = "returned"

SetPause(b) ==
    /\ pc = "loop"
    /\ paused # b
    /\ paused' = b
    /\ UNCHANGED <<input, uploaded, files, progress_df, pc, ret, reused, skip_done,
                   use_selenium, auto_save_every, concurrency, SELENIUM_AVAILABLE,
                   tasks, recorded, completed, total, flushed, phase, preReset, runs,
                   doneAtCrash, flushedAtCrash, drivers, arg, out>>

NextPause ==
    \/ Next
    \/ \E b \in BOOLEAN : SetPause(b)

\* One script run during which the user may ask for a pause at any time.
SpecPause == Init /\ [][NextPause]_vars

\* C14: while the pause flag is set no queued WorkItem is handed to a
\* worker (calls in flight go on and are recorded).
C14_NoDispatchWhilePaused ==
    [][(paused /\ paused') =>
          \A i \in DOMAIN tasks :
              (tasks[i].pc = "queued" /\ i \in DOMAIN tasks') =>
                  tasks'[i].pc = "queued"]_vars

\* ------------------------------------------------------ extractor functions
\* str.lower() on the strings used below.
Lower(str) ==
    CASE str = "site.com/Blog" -> "site.com/blog"
      [] str = "Post-Body" -> "post-body"
      [] str = "AI" -> "ai"
      [] str = "Travel" -> "travel"
      [] str = "Info@Example.com" -> "info@example.com"
      [] OTHER -> str

\* The pairs <<p, s>> of the strings used below with p a proper substring of s.
Within ==
    {<<"/blog", "site.com/blog">>, <<"/post", "site.com/posts/">>,
     <<"/posts/", "site.com/posts/">>, <<"/202", "site.com/2024/05">>,
     <<"post", "post-body">>, <<"entry", "entry-title">>,
     <<"learn", "machine learning">>, <<"privacy", "privacy.org">>}

\* `p in s`
Occurs(p, str) == p = str \/ <<p, str>> \in Within

\* ---------------------------------------------------------------- claim C15
\* line 95
UrlPatterns == {"/blog", "/post", "/article", "/tag", "/category", "/202", "/posts/"}

\* line 100: re.compile(r"post|article|entry|blog", re.I)
ClassWords == {"post", "article", "entry", "blog"}

\* The URLs and the elements a page is made of.
PageUrls ==
    {"site.com/", "site.com/Blog", "site.com/blog", "site.com/posts/",
     "site.com/2024/05", "site.com/about"}

Element(t, c, pr) == [tag |-> t, class |-> c, property |-> pr]

Elements ==
    {Element("article", "", ""), Element("div", "Post-Body", ""),
     Element("div", "nav", ""), Element("section", "entry-title", ""),
     Element("meta", "", "article:published_time"),
     Element("meta", "", "og:title"), Element("time", "", "")}

Pages == [url : PageUrls, soup : SUBSET Elements]

\* line 95
UrlSignal(url) == \E p \in UrlPatterns : Occurs(p, Lower(url))

\* line 98: soup.find_all("article")
ArticleSignal(soup) == \E e \in soup : e.tag = "article"

\* line 100: soup.find_all(attrs={"class": ...})
ClassSignal(soup) ==
    \E e \in soup : \E w \in ClassWords : Occurs(w, Lower(e.class))

\* line 103
TimeSignal(soup) ==
    \/ \E e \in soup : e.tag = "meta" /\ e.property = "article:published_time"
    \/ \E e \in soup : e.tag = "time"

One(b) == IF b THEN 1 ELSE 0

\* lines 93-104: blog_signs
BlogSigns(soup, url) ==
    One(UrlSignal(url)) + One(ArticleSignal(soup)) + One(ClassSignal(soup))
        + One(TimeSignal(soup))

\* Mutant: one sign is enough.
M_is_likely_blog(soup, url) == BlogSigns(soup, url) >= 1

\* lines 88-105 (the text argument is not used by the code)
is_likely_blog(soup, url) == BlogSigns(soup, url) >= 2

CallIsLikelyBlog ==
    /\ out = <<>>
    /\ out' = <<is_likely_blog(arg.soup, arg.url)>>
    /\ UNCHANGED <<input, uploaded, files, progress_df, pc, ret, reused, skip_done,
                   use_selenium, auto_save_every, concurrency, SELENIUM_AVAILABLE,
                   tasks, recorded, completed, total, flushed, phase, preReset, runs,
                   doneAtCrash, flushedAtCrash, paused, drivers, arg>>

InitBlog ==
    /\ ScriptInit
    /\ SELENIUM_AVAILABLE = FALSE
    /\ paused = FALSE
    /\ drivers = <<>>
    /\ arg \in Pages
    /\ out = <<>>

\* is_likely_blog applied to every page.
SpecBlog == InitBlog /\ [][CallIsLikelyBlog]_vars

\* The four signals of a page, as the claim lists them.
Signals(page) ==
    <<UrlSignal(page.url), ArticleSignal(page.soup), ClassSignal(page.soup),
      TimeSignal(page.soup)>>

HowMany(sig) == Cardinality({k \in 1..4 : sig[k]})

\* C15: is_likely_blog is true iff at least 2 of the four signals hold; 0 or
\* 1 signals give false, all four give true, and no page with the same
\* signals and one more turned on is classified false when this one is true.
C15_BlogIffTwoSignals ==
    out # <<>> =>
        /\ out[1] = (HowMany(Signals(arg)) >= 2)
        /\ HowMany(Signals(arg)) <= 1 => ~out[1]
        /\ HowMany(Signals(arg)) = 4 => out[1]
        /\ \A q \in Pages :
              (/\ \A k \in 1..4 : Signals(arg)[k] => Signals(q)[k]
               /\ out[1]) => is_likely_blog(q.soup, q.url)

\* A page with exactly two signals, neither of them the URL, was classified.
C15_Witness ==
    /\ out = <<TRUE>>
    /\ HowMany(Signals(arg)) = 2
    /\ ~UrlSignal(arg.url)

\* ---------------------------------------------------------------- claim C16
\* lines 42-50, in the order of the dict
NICHE_KEYWORDS ==
    << <<"Health", <<"health", "fitness", "doctor", "symptom", "recipe", "diet",
                     "workout", "wellness", "medical", "clinic">> >>,
       <<"Finance", <<"finance", "bank", "loan", "investment", "trading",
                      "stock", "crypto", "insurance", "money", "tax">> >>,
       <<"Travel", <<"travel", "hotel", "flight", "itinerary", "destination",
                     "tour", "booking", "trip">> >>,
       <<"Food", <<"recipe", "cooking", "restaurant", "dish", "ingredients",
                   "cuisine", "chef">> >>,
       <<"Tech", <<"tech", "software", "app", "developer", "coding", "AI",
                   "machine learning", "gadget", "hardware">> >>,
       <<"Ecommerce", <<"shop", "cart", "buy", "product", "checkout", "store",
                        "ecommerce", "sale">> >>,
       <<"Education", <<"school", "college", "course", "lesson", "tutorial",
                        "study", "learn">> >> >>

Range(seq) == {seq[k] : k \in 1..Len(seq)}

\* The words a text is made of: every keyword as the dict spells it, and
\* other spellings and words.
Words ==
    UNION {Range(NICHE_KEYWORDS[n][2]) : n \in 1..Len(NICHE_KEYWORDS)}
        \cup {"ai", "Travel", "hello"}

\* A text is its words, separated by blanks.
Texts == SeqsUpTo(Words, MaxWords)

\* text.lower()
LowerText(text) == [k \in 1..Len(text) |-> Lower(text[k])]

\* lower.count(k): no word here holds a keyword twice
StrCount(lower, k) == Cardinality({p \in 1..Len(lower) : Occurs(k, lower[p])})

RECURSIVE SumCounts(_, _, _)
\* line 112: sum(lower.count(k) for k in keywords), over keywords[1..n]
SumCounts(lower, keywords, n) ==
    IF n = 0 THEN 0
    ELSE SumCounts(lower, keywords, n - 1) + StrCount(lower, keywords[n])

\* line 112: cnt of the n-th niche
Cnt(text, n) ==
    SumCounts(LowerText(text), NICHE_KEYWORDS[n][2], Len(NICHE_KEYWORDS[n][2]))

\* lines 108-118: max() returns the first item of the dict with the top count
detect_niche(text) ==
    LET scored == {n \in 1..Len(NICHE_KEYWORDS) : Cnt(text, n) > 0}
        top == {n \in scored : \A m \in scored : Cnt(text, m) <= Cnt(text, n)}
    IN IF scored = {} THEN "Other"
       ELSE NICHE_KEYWORDS[CHOOSE n \in top : \A m \in top : n <= m][1]

CallDetectNiche ==
    /\ out = <<>>
    /\ out' = <<detect_niche(arg)>>
    /\ UNCHANGED <<input, uploaded, files, progress_df, pc, ret, reused, skip_done,
                   use_selenium, auto_save_every, concurrency, SELENIUM_AVAILABLE,
                   tasks, recorded, completed, total, flushed, phase, preReset, runs,
                   doneAtCrash, flushedAtCrash, paused, drivers, arg>>

InitNiche ==
    /\ ScriptInit
    /\ SELENIUM_AVAILABLE = FALSE
    /\ paused = FALSE
    /\ drivers = <<>>
    /\ arg \in Texts
    /\ out = <<>>

\* detect_niche applied to every text.
SpecNiche == InitNiche /\ [][CallDetectNiche]_vars

\* The order of the labels that the claim gives.
ClaimedOrder ==
    <<"Health", "Finance", "Tech", "Ecommerce", "Travel", "Food", "Education">>

KeywordsOf(label) ==
    NICHE_KEYWORDS[CHOOSE n \in 1..Len(NICHE_KEYWORDS) :
                       NICHE_KEYWORDS[n][1] = label][2]

\* The case-insensitive count of the occurrences of a label's keywords.
Occurrences(text, label) ==
    LET kw == KeywordsOf(label)
        lowered == [k \in 1..Len(kw) |-> Lower(kw[k])]
    IN SumCounts(LowerText(text), lowered, Len(lowered))

\* C16: detect_niche returns 'Other' for a text with no keyword, and else
\* the first label, in the order Health, Finance, Tech, Ecommerce, Travel,
\* Food, Education, among those whose keyword count is maximal; so a text
\* with keywords of one niche only returns that niche.
C16_NicheIsFirstMaximal ==
    out # <<>> =>
        LET present == {k \in 1..7 : Occurrences(arg, ClaimedOrder[k]) > 0}
            top == {k \in present : \A m \in present :
                       Occurrences(arg, ClaimedOrder[m])
                           <= Occurrences(arg, ClaimedOrder[k])}
        IN /\ present = {} => out[1] = "Other"
           /\ present # {} =>
                 out[1] = ClaimedOrder[CHOOSE k \in top : \A m \in top : k <= m]

\* ---------------------------------------------------------------- claim C17
\* The blank-separated tokens of a content: addresses that EMAIL_REGEX
\* (line 52) matches whole, and words without an "@".
Addresses ==
    {"Info@Example.com", "info@example.com", "noreply@example.com",
     "sales@privacy.org", "bob@site.io", "dpo@firm.de", "abuse@host.net",
     "gdpr@corp.eu"}

Tokens == Addresses \cup {"hello", "contact"}

Contents == SeqsUpTo(Tokens, MaxWords)

\* The part of an address before the "@", and the part after it.
LocalPart(a) ==
    CASE a = "Info@Example.com" -> "Info"
      [] a = "info@example.com" -> "info"
      [] a = "noreply@example.com" -> "noreply"
      [] a = "sales@privacy.org" -> "sales"
      [] a = "bob@site.io" -> "bob"
      [] a = "dpo@firm.de" -> "dpo"
      [] a = "abuse@host.net" -> "abuse"
      [] a = "gdpr@corp.eu" -> "gdpr"

DomainPart(a) ==
    CASE a = "Info@Example.com" -> "Example.com"
      [] a = "info@example.com" -> "example.com"
      [] a = "noreply@example.com" -> "example.com"
      [] a = "sales@privacy.org" -> "privacy.org"
      [] a = "bob@site.io" -> "site.io"
      [] a = "dpo@firm.de" -> "firm.de"
      [] a = "abuse@host.net" -> "host.net"
      [] a = "gdpr@corp.eu" -> "corp.eu"

\* EMAIL_REGEX.findall on two tokens written without a blank between them:
\* the letters that follow an address lengthen its top-level domain, the
\* letters before one lengthen its local part, and an "@" with nothing
\* matched before it starts no match.
FindallJoined(a, b) ==
    IF a \in Addresses
    THEN {a \o (IF b \in Addresses THEN LocalPart(b) ELSE b)}
    ELSE IF b \in Addresses THEN {a \o b} ELSE {}

\* EMAIL_REGEX.findall(text), as a set
Findall(text) == {text[k] : k \in {j \in 1..Len(text) : text[j] \in Addresses}}

\* lines 84-85: list(set(EMAIL_REGEX.findall(text or "")))
extract_emails_from_text(text) == Findall(text)

\* text + text
Doubled(text) ==
    IF text = <<>> THEN <<>>
    ELSE [joined |-> <<text[Len(text)], text[1]>>,
          rest |-> SubSeq(text, 2, Len(text)) \o SubSeq(text, 1, Len(text) - 1)]

\* extract_emails_from_text(text + text)
ExtractDoubled(text) ==
    IF text = <<>> THEN {}
    ELSE LET d == Doubled(text)
         IN FindallJoined(d.joined[1], d.joined[2])
                \cup (IF Len(text) = 1 THEN {} ELSE Findall(d.rest))

CallExtractEmails ==
    /\ out = <<>>
    /\ out' = <<extract_emails_from_text(arg)>>
    /\ UNCHANGED <<input, uploaded, files, progress_df, pc, ret, reused, skip_done,
                   use_selenium, auto_save_every, concurrency, SELENIUM_AVAILABLE,
                   tasks, recorded, completed, total, flushed, phase, preReset, runs,
                   doneAtCrash, flushedAtCrash, paused, drivers, arg>>

InitEmails ==
    /\ ScriptInit
    /\ SELENIUM_AVAILABLE = FALSE
    /\ paused = FALSE
    /\ drivers = <<>>
    /\ arg \in Contents
    /\ out = <<>>

\* extract_emails_from_text applied to every content.
SpecEmails == InitEmails /\ [][CallExtractEmails]_vars

\* The operational-mailbox markers.
Markers == {"privacy", "gdpr", "dpo", "abuse", "noreply"}

HasMarker(a) ==
    \E m \in Markers : Occurs(m, Lower(LocalPart(a))) \/ Occurs(m, Lower(DomainPart(a)))

\* C17: every returned email is lowercased, none has a marker (privacy,
\* gdpr, dpo, abuse, noreply) in its local part or domain, and the content
\* concatenated with itself gives the same set (the set has no duplicates).
C17_EmailsLowercasedFilteredDeduplicated ==
    out # <<>> =>
        /\ \A e \in out[1] : e = Lower(e) /\ ~HasMarker(e)
        /\ ExtractDoubled(arg) = out[1]

\* ---------------------------------------------------------------- claim C18
\* The rows recorded in this run whose result is not in the durable copy.
Unflushed ==
    {i \in recorded :
        ~(/\ Durable.exists
          /\ i <= Len(Durable.rows)
          /\ Durable.rows[i] = ToCsvRow(progress_df[i]))}

\* C18 (as claimed): at every point fewer than N = auto_save_every recorded
\* results are missing from the durable copy, the completed-count is at most
\* the total, and at the end of the run the durable ledger equals the one in
\* memory.
C18_UnflushedBelowCadence ==
    /\ Cardinality(Unflushed) < auto_save_every
    /\ completed <= total
    /\ pc = "export" => Durable = CsvFile(progress_df)

\* C18 (amended): at most N recorded results are missing from the durable
\* copy, and fewer than N whenever the loop is between two iterations (the
\* N-th is missing until the save that follows it has replaced the file);
\* the completed-count is the number of recorded results, grows by exactly
\* one per completion up to the total, and each completion whose count is a
\* multiple of N or the total is followed by a save; at the end of the run
\* the durable ledger equals the one in memory.
C18_FlushEveryN ==
    /\ [](/\ Cardinality(Unflushed) <= auto_save_every
          /\ pc = "loop" => Cardinality(Unflushed) < auto_save_every
          /\ completed = Cardinality(recorded)
          /\ completed <= total
          /\ pc = "export" => Durable = CsvFile(progress_df))
    /\ [][(pc = "loop" /\ pc' # "stopped" /\ completed' # completed) =>
            /\ completed' = completed + 1
            /\ (completed' % auto_save_every = 0 \/ completed' = total)
                   <=> pc' = "save_open"]_vars

\* With cadence 2, one result is recorded and not yet durable, and the loop
\* goes on without a save.
C18_Witness ==
    /\ pc = "loop"
    /\ auto_save_every = 2
    /\ total = 2
    /\ completed = 1
    /\ Cardinality(Unflushed) = 1

\* ---------------------------------------------------------------- claim C19
\* fetch_with_selenium (lines 128-152), one step per statement that can fail.
\* A worker's record: `pc` its position, `session` the browser session of
\* the call ("none", "open", "closed"), `quit` how driver.quit() ended
\* ("none", "ok", "failed"), `exc` the exception in flight, `left_open`
\* and `failed_quit` whether one of the worker's earlier calls left its
\* session open, and whether a quit() of an earlier call raised.
IdleDriver ==
    [pc |-> "idle", session |-> "none", quit |-> "none", exc |-> "none",
     left_open |-> FALSE, failed_quit |-> FALSE]

\* Mutant: no finally clause, a failed navigation propagates at once.
M_OnNavigationError == "raised"

\* lines 143-148: an exception in the try block runs the finally clause
OnNavigationError == "finally"

\* line 176: a worker calls fetch_with_selenium
CallFetch(w) ==
    /\ drivers[w].pc \in {"idle", "returned", "raised"}
    /\ drivers' = [drivers EXCEPT ![w] =
          [pc |-> "launching", session |-> "none", quit |-> "none",
           exc |-> "none",
           left_open |-> @.left_open \/ @.session = "open",
           failed_quit |-> @.failed_quit \/ @.quit = "failed"]]
    /\ UNCHANGED <<input, uploaded, files, progress_df, pc, ret, reused, skip_done,
                   use_selenium, auto_save_every, concurrency, SELENIUM_AVAILABLE,
                   tasks, recorded, completed, total, flushed, phase, preReset, runs,
                   doneAtCrash, flushedAtCrash, paused, arg, out>>

\* line 142: webdriver.Chrome(options=...), outside the try block
Launch(w, ok) ==
    /\ drivers[w].pc = "launching"
    /\ drivers' = [drivers EXCEPT ![w] =
          IF ok THEN [@ EXCEPT !.pc = "try", !.session = "open"]
                ELSE [@ EXCEPT !.pc = "raised", !.exc = "launch failed"]]
    /\ UNCHANGED <<input, uploaded, files, progress_df, pc, ret, reused, skip_done,
                   use_selenium, auto_save_every, concurrency, SELENIUM_AVAILABLE,
                   tasks, recorded, completed, total, flushed, phase, preReset, runs,
                   doneAtCrash, flushedAtCrash, paused, arg, out>>

\* lines 144-145: set_page_load_timeout and get
Navigate(w, outcome) ==
    /\ drivers[w].pc = "try"
    /\ drivers' = [drivers EXCEPT ![w] =
          IF outcome = "ok" THEN [@ EXCEPT !.pc = "loaded"]
          ELSE [@ EXCEPT !.pc = OnNavigationError, !.exc = outcome]]
    /\ UNCHANGED <<input, uploaded, files, progress_df, pc, ret, reused, skip_done,
                   use_selenium, auto_save_every, concurrency, SELENIUM_AVAILABLE,
                   tasks, recorded, completed, total, flushed, phase, preReset, runs,
                   doneAtCrash, flushedAtCrash, paused, arg, out>>

\* lines 146-147: sleep, then return driver.page_source
Capture(w, ok) ==
    /\ drivers[w].pc = "loaded"
    /\ drivers' = [drivers EXCEPT ![w] =
          [@ EXCEPT !.pc = "finally",
                    !.exc = IF ok THEN "none" ELSE "capture failed"]]
    /\ UNCHANGED <<input, uploaded, files, progress_df, pc, ret, reused, skip_done,
                   use_selenium, auto_save_every, concurrency, SELENIUM_AVAILABLE,
                   tasks, recorded, completed, total, flushed, phase, preReset, runs,
                   doneAtCrash, flushedAtCrash, paused, arg, out>>

\* lines 148-152: driver.quit(); when it raises the exception is dropped,
\* and the browser may or may not have gone.
Quit(w, ok, gone) ==
    /\ drivers[w].pc = "finally"
    /\ ok => gone
    /\ drivers' = [drivers EXCEPT ![w] =
          [@ EXCEPT !.pc = IF drivers[w].exc = "none" THEN "returned"
                                                           ELSE "raised",
                    !.quit = IF ok THEN "ok" ELSE "failed",
                    !.session = IF gone THEN "closed" ELSE "open"]]
    /\ UNCHANGED <<input, uploaded, files, progress_df, pc, ret, reused, skip_done,
                   use_selenium, auto_save_every, concurrency, SELENIUM_AVAILABLE,
                   tasks, recorded, completed, total, flushed, phase, preReset, runs,
                   doneAtCrash, flushedAtCrash, paused, arg, out>>

InitSelenium ==
    /\ ScriptInit
    /\ SELENIUM_AVAILABLE = TRUE
    /\ paused = FALSE
    /\ drivers = [w \in 1..MaxConcurrency |-> IdleDriver]
    /\ arg = <<>>
    /\ out = <<>>

NextSelenium ==
    \E w \in DOMAIN drivers :
        \/ CallFetch(w)
        \/ \E ok \in BOOLEAN : Launch(w, ok)
        \/ \E outcome \in {"ok", "timeout", "navigation failed"} : Navigate(w, outcome)
        \/ \E ok \in BOOLEAN : Capture(w, ok)
        \/ \E ok \in BOOLEAN, gone \in BOOLEAN : Quit(w, ok, gone)

\* Any sequence of rendered fetches by each of MaxConcurrency workers.
SpecSelenium == InitSelenium /\ [][NextSelenium]_vars

\* The worker is not inside fetch_with_selenium.
Outside(w) == drivers[w].pc \in {"idle", "returned", "raised"}

\* Some session launched by the worker is open.
HasOpenSession(w) == drivers[w].left_open \/ drivers[w].session = "open"

\* Some quit() called by the worker raised.
HadFailedQuit(w) == drivers[w].failed_quit \/ drivers[w].quit = "failed"

JoinedEmails(x) == IF x = "[]" THEN "" ELSE "x@a.com"

\* One row of final_df: the input row it continues, and the result columns.
ExportRow(k, u, r) ==
    [input_row |-> k, URL |-> u, emails |-> JoinedEmails(r.emails),
     is_blog |-> r.is_blog, niche |-> r.niche, status |-> r.status]

\* line 401: the rows a left merge on the URL yields for input row k
MergedRows(k, u, df) ==
    LET hits == SelectSeq(df, LAMBDA r : r.URL = u)
    IN IF hits = <<>>
       THEN <<[input_row |-> k, URL |-> u, emails |-> NaN, is_blog |-> NaN,
               niche |-> NaN, status |-> NaN]>>
       ELSE [j \in 1..Len(hits) |-> ExportRow(k, u, hits[j])]

RECURSIVE Merge(_, _, _)
\* line 401: final_df.merge(temp, left_on=url_column, right_on='URL',
\* how='left'), for the input rows 1..k
Merge(inp, df, k) ==
    IF k = 0 THEN <<>>
    ELSE Merge(inp, df, k - 1) \o MergedRows(k, inp[k], df)

\* lines 384-401: final_df
Export(inp, df) ==
    IF Len(inp) = Len(df)
    THEN [k \in 1..Len(inp) |-> ExportRow(k, inp[k], df[k])]
    ELSE Merge(inp, df, Len(inp))

\* C20: whenever the script holds a ledger, it has exactly one row per input
\* row, in input order, and row i carries the URL of input row i; the export
\* has exactly one row per input row, with the status and the results of
\* the ledger row of that input row.
C20_LedgerAlignedWithInput ==
    pc \in {"widgets", "loop", "export"} =>
        /\ Len(progress_df) = Len(input)
        /\ \A i \in 1..Len(input) : progress_df[i].URL = input[i]
        /\ LET final_df == Export(input, progress_df)
           IN /\ Len(final_df) = Len(input)
              /\ \A i \in 1..Len(input) :
                    final_df[i] = ExportRow(i, input[i], progress_df[i])
====
